---- MODULE Spec2Model ----
(***************************************************************************)
(* A model of dualsense-ts' HIDProvider (src/src/hid/hid_provider.ts):     *)
(* the connection classifier (setWireless, setWired,                       *)
(* autodetectConnectionType, reset), the value mappers (mapAxis,           *)
(* mapTrigger, mapGyroAccel) and the three report decoders.                *)
(*                                                                         *)
(* Numbers: JavaScript's bitwise operators work on 32-bit integers; they   *)
(* are modelled bit by bit (Shl, Sar, BitAnd, BitOr). mapAxis and          *)
(* mapTrigger return doubles; the model keeps the exact rational           *)
(* [num, den] the expression denotes.                                      *)
(***************************************************************************)
EXTENDS Integers, Sequences, FiniteSets, TLC

VARIABLES
    wireless,       \* this.wireless: "true", "false" or "undefined"
    device,         \* this.device: "undefined" or "set"
    buffer,         \* this.buffer: "undefined" or "set"
    unknownDevice,  \* this.unknownDevice
    lastCall,       \* the operation of the last step: <<name>> or <<name, buffer.length>>
    calls,          \* autodetectConnectionType calls that took the default branch since construction or the last reset()
    errors,         \* this.onError invocations since construction or the last reset()
    mapIn,          \* the arguments handed to a value mapper: <<name, arg, ...>>
    mapOut,         \* <<>> before the mapper ran, <<result>> after
    report,         \* the ByteArray handed to a decode routine: a function 0..length-1 -> 0..255
    routine,        \* the decode routine that ran on report, "none" before
    state           \* the outcome of the decode routine: [ok |-> TRUE, snapshot |-> ...] or [ok |-> FALSE, offset |-> ...]

vars == <<wireless, device, buffer, unknownDevice, lastCall, calls, errors,
          mapIn, mapOut, report, routine, state>>

providerVars == <<wireless, device, buffer, unknownDevice, lastCall, calls, errors>>
mapperVars == <<mapIn, mapOut>>
decodeVars == <<report, routine, state>>

----------------------------------------------------------------------------
(* Bounds of the model *)

\* unrecognized-length buffers handed to autodetectConnectionType between two resets
MaxCalls == 3
\* how far below 0 and above max the raw values handed to mapAxis range
MaxOver == 5

----------------------------------------------------------------------------
(* Program constants *)

DUAL_SENSE_USB_INPUT_REPORT_0x01_SIZE == 63
DUAL_SENSE_BT_INPUT_REPORT_0x01_SIZE == 9
DUAL_SENSE_BT_INPUT_REPORT_0x31_SIZE == 77

Byte == 0..255

----------------------------------------------------------------------------
(* JavaScript's 32-bit integer operators, on non-negative operands below 2^31 *)

\* x << n: the low 32 bits of x * 2^n, read as a signed 32-bit integer
Shl(x, n) ==
    LET low == x % (2 ^ (31 - n))
        top == (x \div (2 ^ (31 - n))) % 2
    IN  IF top = 1 THEN (low * (2 ^ n) - 2147483647) - 1 ELSE low * (2 ^ n)

\* x >> n: the sign-propagating right shift
Sar(x, n) == x \div (2 ^ n)

RECURSIVE BitAnd(_, _)
BitAnd(a, b) ==
    IF a = 0 \/ b = 0 THEN 0
    ELSE (a % 2) * (b % 2) + 2 * BitAnd(a \div 2, b \div 2)

RECURSIVE BitOr(_, _)
BitOr(a, b) ==
    IF a = 0 THEN b
    ELSE IF b = 0 THEN a
    ELSE (IF a % 2 = 1 \/ b % 2 = 1 THEN 1 ELSE 0) + 2 * BitOr(a \div 2, b \div 2)

Min(a, b) == IF a < b THEN a ELSE b
Max(a, b) == IF a > b THEN a ELSE b

----------------------------------------------------------------------------
(* Value mappers *)

\* mapAxis without the lower clamp: Math.min(max, value) only
mapAxis_noLowerClamp(value, max) ==
    [num |-> 2 * Min(max, value) - max, den |-> max]

\* (2 / max) * Math.max(0, Math.min(max, value)) - 1, as the rational num/den
mapAxis(value, max) ==
    [num |-> 2 * Max(0, Min(max, value)) - max, den |-> max]

\* the unary minus the decoders apply to the Y axes
Neg(r) == [num |-> -r.num, den |-> r.den]

\* (1 / 255) * Math.max(0, Math.min(255, value)), as the rational num/den
mapTrigger(value) ==
    [num |-> Max(0, Min(255, value)), den |-> 255]

\* mapGyroAccel without the sign adjustment
mapGyroAccel_unsigned(v0, v1) == BitOr(Shl(v1, 8), v0)

mapGyroAccel(v0, v1) ==
    LET v == BitOr(Shl(v1, 8), v0)
    IN  IF v > 32767 THEN v - 65536 ELSE v

----------------------------------------------------------------------------
(* Connection classifier *)

Recognized(len) ==
    \/ len = DUAL_SENSE_USB_INPUT_REPORT_0x01_SIZE + 1
    \/ len = DUAL_SENSE_BT_INPUT_REPORT_0x31_SIZE + 1

\* the buffer lengths the transport hands over: the three declared report
\* lengths, their neighbours and the empty buffer
BufferLengths ==
    {0,
     DUAL_SENSE_BT_INPUT_REPORT_0x01_SIZE, DUAL_SENSE_BT_INPUT_REPORT_0x01_SIZE + 1,
     DUAL_SENSE_USB_INPUT_REPORT_0x01_SIZE, DUAL_SENSE_USB_INPUT_REPORT_0x01_SIZE + 1,
     DUAL_SENSE_USB_INPUT_REPORT_0x01_SIZE + 2,
     DUAL_SENSE_BT_INPUT_REPORT_0x31_SIZE, DUAL_SENSE_BT_INPUT_REPORT_0x31_SIZE + 1,
     DUAL_SENSE_BT_INPUT_REPORT_0x31_SIZE + 2}

\* connect(): the transport's device handle is stored
connect ==
    /\ device' = "set"
    /\ lastCall' = <<"connect">>
    /\ UNCHANGED <<wireless, buffer, unknownDevice, calls, errors>>

\* process(): the most recent report is kept in this.buffer
process ==
    /\ buffer' = "set"
    /\ lastCall' = <<"process">>
    /\ UNCHANGED <<wireless, device, unknownDevice, calls, errors>>

setWireless ==
    /\ wireless' = "true"
    /\ lastCall' = <<"setWireless">>
    /\ UNCHANGED <<device, buffer, unknownDevice, calls, errors>>

setWired ==
    /\ wireless' = "false"
    /\ lastCall' = <<"setWired">>
    /\ UNCHANGED <<device, buffer, unknownDevice, calls, errors>>

\* autodetectConnectionType with onError called on every unexpected buffer size
autodetectConnectionType_alwaysReports(len) ==
    /\ Recognized(len) \/ calls < MaxCalls
    /\ lastCall' = <<"autodetectConnectionType", len>>
    /\ IF len = DUAL_SENSE_USB_INPUT_REPORT_0x01_SIZE + 1
         THEN /\ wireless' = "false"
              /\ UNCHANGED <<unknownDevice, calls, errors>>
       ELSE IF len = DUAL_SENSE_BT_INPUT_REPORT_0x31_SIZE + 1
         THEN /\ wireless' = "true"
              /\ UNCHANGED <<unknownDevice, calls, errors>>
       ELSE /\ errors' = errors + 1
            /\ wireless' = "undefined"
            /\ unknownDevice' = TRUE
            /\ calls' = calls + 1
    /\ UNCHANGED <<device, buffer>>

\* autodetectConnectionType with the flag cleared by a recognized length
autodetectConnectionType_clearsFlag(len) ==
    /\ Recognized(len) \/ calls < MaxCalls
    /\ lastCall' = <<"autodetectConnectionType", len>>
    /\ IF len = DUAL_SENSE_USB_INPUT_REPORT_0x01_SIZE + 1
         THEN /\ wireless' = "false"
              /\ unknownDevice' = FALSE
              /\ UNCHANGED <<calls, errors>>
       ELSE IF len = DUAL_SENSE_BT_INPUT_REPORT_0x31_SIZE + 1
         THEN /\ wireless' = "true"
              /\ unknownDevice' = FALSE
              /\ UNCHANGED <<calls, errors>>
       ELSE /\ errors' = IF ~unknownDevice THEN errors + 1 ELSE errors
            /\ wireless' = "undefined"
            /\ unknownDevice' = TRUE
            /\ calls' = calls + 1
    /\ UNCHANGED <<device, buffer>>

\* switch (buffer.length) { case USB + 1 ... case BT 0x31 + 1 ... default ... }
autodetectConnectionType(len) ==
    /\ Recognized(len) \/ calls < MaxCalls
    /\ lastCall' = <<"autodetectConnectionType", len>>
    /\ IF len = DUAL_SENSE_USB_INPUT_REPORT_0x01_SIZE + 1
         THEN /\ wireless' = "false"
              /\ UNCHANGED <<unknownDevice, calls, errors>>
       ELSE IF len = DUAL_SENSE_BT_INPUT_REPORT_0x31_SIZE + 1
         THEN /\ wireless' = "true"
              /\ UNCHANGED <<unknownDevice, calls, errors>>
       ELSE /\ errors' = IF ~unknownDevice THEN errors + 1 ELSE errors
            /\ wireless' = "undefined"
            /\ unknownDevice' = TRUE
            /\ calls' = calls + 1
    /\ UNCHANGED <<device, buffer>>

\* reset() that leaves unknownDevice as it is
reset_keepsFlag ==
    /\ device' = "undefined"
    /\ wireless' = "undefined"
    /\ buffer' = "undefined"
    /\ lastCall' = <<"reset">>
    /\ calls' = 0
    /\ errors' = 0
    /\ UNCHANGED unknownDevice

reset ==
    /\ device' = "undefined"
    /\ wireless' = "undefined"
    /\ buffer' = "undefined"
    /\ unknownDevice' = FALSE
    /\ lastCall' = <<"reset">>
    /\ calls' = 0
    /\ errors' = 0

autodetect == \E len \in BufferLengths : autodetectConnectionType(len)

ProviderInit ==
    /\ wireless = "undefined"
    /\ device = "undefined"
    /\ buffer = "undefined"
    /\ unknownDevice = FALSE
    /\ lastCall = <<"new">>
    /\ calls = 0
    /\ errors = 0

MapperIdle == mapIn = <<>> /\ mapOut = <<>>
DecodeIdle == report = <<>> /\ routine = "none" /\ state = [ok |-> FALSE, offset |-> 0]

Init == ProviderInit /\ MapperIdle /\ DecodeIdle

Next ==
    \/ connect /\ UNCHANGED <<mapperVars, decodeVars>>
    \/ process /\ UNCHANGED <<mapperVars, decodeVars>>
    \/ setWireless /\ UNCHANGED <<mapperVars, decodeVars>>
    \/ setWired /\ UNCHANGED <<mapperVars, decodeVars>>
    \/ autodetect /\ UNCHANGED <<mapperVars, decodeVars>>
    \/ reset /\ UNCHANGED <<mapperVars, decodeVars>>

Spec == Init /\ [][Next]_vars

----------------------------------------------------------------------------
(* Byte accessor: the ByteArray interface of ./byte_array *)

length(buf) == Cardinality(DOMAIN buf)

\* readUint8(offset), for an offset within the buffer
readUint8(buf, offset) == buf[offset]

\* readUint16LE(offset), for offset and offset + 1 within the buffer
readUint16LE(buf, offset) == buf[offset] + 256 * buf[offset + 1]

\* a read of width bytes at offset addresses past the buffer: OutOfRange
OutOfRange(buf, offset, width) == offset < 0 \/ offset + width > length(buf)

\* the offset of the first read of reads (<<offset, width>> pairs, in the
\* order the routine evaluates them) that is out of range
FirstOutOfRange(buf, reads) ==
    LET bad == {i \in 1..Len(reads) : OutOfRange(buf, reads[i][1], reads[i][2])}
        first == CHOOSE i \in bad : \A j \in bad : i <= j
    IN  reads[first][1]

AnyOutOfRange(buf, reads) ==
    \E i \in 1..Len(reads) : OutOfRange(buf, reads[i][1], reads[i][2])

----------------------------------------------------------------------------
(* Report decoders *)

\* (word << 20) >> 20 with the shifts left out
touchX_unshifted(word) == word

\* (buffer.readUint16LE(o) << 20) >> 20
touchX(word) == Sar(Shl(word, 20), 20)

\* buffer.readUint16LE(o + 1) >> 4
touchY(word) == Sar(word, 4)

\* the reads of processBluetoothInputReport01, in evaluation order
BluetoothReads ==
    <<<<7, 1>>, <<8, 1>>, <<9, 1>>, <<1, 1>>, <<2, 1>>, <<3, 1>>, <<4, 1>>,
      <<8, 1>>, <<9, 1>>, <<16, 1>>, <<17, 1>>, <<18, 1>>, <<19, 1>>,
      <<20, 1>>, <<21, 1>>, <<22, 1>>, <<23, 1>>, <<24, 1>>, <<25, 1>>,
      <<26, 1>>, <<27, 1>>, <<33, 1>>, <<33, 1>>, <<34, 2>>, <<35, 2>>,
      <<37, 1>>, <<37, 1>>, <<38, 2>>, <<39, 2>>, <<54, 1>>>>

BluetoothSnapshot(buf) ==
    LET buttonsAndDpad == readUint8(buf, 7)
        buttons == Sar(buttonsAndDpad, 4)
        dpad == BitAnd(buttonsAndDpad, 15)
        miscButtons == readUint8(buf, 8)
        lastButtons == readUint8(buf, 9)
    IN  [LeftAnalogX |-> mapAxis(readUint8(buf, 1), 255),
         LeftAnalogY |-> Neg(mapAxis(readUint8(buf, 2), 255)),
         RightAnalogX |-> mapAxis(readUint8(buf, 3), 255),
         RightAnalogY |-> Neg(mapAxis(readUint8(buf, 4), 255)),
         LeftTrigger |-> mapTrigger(readUint8(buf, 8)),
         RightTrigger |-> mapTrigger(readUint8(buf, 9)),
         Triangle |-> BitAnd(buttons, 8) > 0,
         Circle |-> BitAnd(buttons, 4) > 0,
         Cross |-> BitAnd(buttons, 2) > 0,
         Square |-> BitAnd(buttons, 1) > 0,
         Dpad |-> dpad,
         Up |-> dpad < 2 \/ dpad = 7,
         Down |-> dpad > 2 /\ dpad < 6,
         Left |-> dpad > 4 /\ dpad < 8,
         Right |-> dpad > 0 /\ dpad < 4,
         LeftTriggerButton |-> BitAnd(miscButtons, 4) > 0,
         RightTriggerButton |-> BitAnd(miscButtons, 8) > 0,
         LeftBumper |-> BitAnd(miscButtons, 1) > 0,
         RightBumper |-> BitAnd(miscButtons, 2) > 0,
         Create |-> BitAnd(miscButtons, 16) > 0,
         Options |-> BitAnd(miscButtons, 32) > 0,
         LeftAnalogButton |-> BitAnd(miscButtons, 64) > 0,
         RightAnalogButton |-> BitAnd(miscButtons, 128) > 0,
         Playstation |-> BitAnd(lastButtons, 1) > 0,
         TouchButton |-> BitAnd(lastButtons, 2) > 0,
         Mute |-> BitAnd(lastButtons, 4) > 0,
         GyroX |-> mapGyroAccel(readUint8(buf, 16), readUint8(buf, 17)),
         GyroY |-> mapGyroAccel(readUint8(buf, 18), readUint8(buf, 19)),
         GyroZ |-> mapGyroAccel(readUint8(buf, 20), readUint8(buf, 21)),
         AccelX |-> mapGyroAccel(readUint8(buf, 22), readUint8(buf, 23)),
         AccelY |-> mapGyroAccel(readUint8(buf, 24), readUint8(buf, 25)),
         AccelZ |-> mapGyroAccel(readUint8(buf, 26), readUint8(buf, 27)),
         TouchId0 |-> BitAnd(readUint8(buf, 33), 127),
         TouchContact0 |-> BitAnd(readUint8(buf, 33), 128) = 0,
         TouchX0 |-> mapAxis(touchX(readUint16LE(buf, 34)), 1920),
         TouchY0 |-> mapAxis(touchY(readUint16LE(buf, 35)), 1080),
         TouchId1 |-> BitAnd(readUint8(buf, 37), 127),
         TouchContact1 |-> BitAnd(readUint8(buf, 37), 128) = 0,
         TouchX1 |-> mapAxis(touchX(readUint16LE(buf, 38)), 1920),
         TouchY1 |-> mapAxis(touchY(readUint16LE(buf, 39)), 1080),
         Status |-> BitAnd(readUint8(buf, 54), 4) > 0]

processBluetoothInputReport01(buf) ==
    IF AnyOutOfRange(buf, BluetoothReads)
      THEN [ok |-> FALSE, offset |-> FirstOutOfRange(buf, BluetoothReads)]
      ELSE [ok |-> TRUE, snapshot |-> BluetoothSnapshot(buf)]

\* the offset with the two cases swapped: this.wireless ? 1 : 0
OldOffset_swapped(w) == IF w = "true" THEN 1 ELSE 0

\* const offset = this.wireless ? 0 : 1
OldOffset(w) == IF w = "true" THEN 0 ELSE 1

\* the reads of processOldInputReport, in evaluation order
OldReads(offset) ==
    <<<<9 - offset, 1>>, <<10 - offset, 1>>, <<11 - offset, 1>>,
      <<2 - offset, 1>>, <<3 - offset, 1>>, <<4 - offset, 1>>,
      <<5 - offset, 1>>, <<6 - offset, 1>>, <<7 - offset, 1>>,
      <<17 - offset, 2>>, <<19 - offset, 2>>, <<21 - offset, 2>>,
      <<23 - offset, 2>>, <<25 - offset, 2>>, <<27 - offset, 2>>,
      <<34 - offset, 1>>, <<34 - offset, 1>>, <<35 - offset, 2>>,
      <<36 - offset, 2>>, <<38 - offset, 1>>, <<38 - offset, 1>>,
      <<39 - offset, 2>>, <<40 - offset, 2>>, <<55 - offset, 1>>>>

OldSnapshot(buf, offset) ==
    LET buttonsAndDpad == readUint8(buf, 9 - offset)
        buttons == Sar(buttonsAndDpad, 4)
        dpad == BitAnd(buttonsAndDpad, 15)
        miscButtons == readUint8(buf, 10 - offset)
        lastButtons == readUint8(buf, 11 - offset)
    IN  [LeftAnalogX |-> mapAxis(readUint8(buf, 2 - offset), 255),
         LeftAnalogY |-> Neg(mapAxis(readUint8(buf, 3 - offset), 255)),
         RightAnalogX |-> mapAxis(readUint8(buf, 4 - offset), 255),
         RightAnalogY |-> Neg(mapAxis(readUint8(buf, 5 - offset), 255)),
         LeftTrigger |-> mapTrigger(readUint8(buf, 6 - offset)),
         RightTrigger |-> mapTrigger(readUint8(buf, 7 - offset)),
         Triangle |-> BitAnd(buttons, 8) > 0,
         Circle |-> BitAnd(buttons, 4) > 0,
         Cross |-> BitAnd(buttons, 2) > 0,
         Square |-> BitAnd(buttons, 1) > 0,
         Dpad |-> dpad,
         Up |-> dpad < 2 \/ dpad = 7,
         Down |-> dpad > 2 /\ dpad < 6,
         Left |-> dpad > 4 /\ dpad < 8,
         Right |-> dpad > 0 /\ dpad < 4,
         LeftTriggerButton |-> BitAnd(miscButtons, 4) > 0,
         RightTriggerButton |-> BitAnd(miscButtons, 8) > 0,
         LeftBumper |-> BitAnd(miscButtons, 1) > 0,
         RightBumper |-> BitAnd(miscButtons, 2) > 0,
         Create |-> BitAnd(miscButtons, 16) > 0,
         Options |-> BitAnd(miscButtons, 32) > 0,
         LeftAnalogButton |-> BitAnd(miscButtons, 64) > 0,
         RightAnalogButton |-> BitAnd(miscButtons, 128) > 0,
         Playstation |-> BitAnd(lastButtons, 1) > 0,
         TouchButton |-> BitAnd(lastButtons, 2) > 0,
         Mute |-> BitAnd(lastButtons, 4) > 0,
         GyroX |-> readUint16LE(buf, 17 - offset),
         GyroY |-> readUint16LE(buf, 19 - offset),
         GyroZ |-> readUint16LE(buf, 21 - offset),
         AccelX |-> readUint16LE(buf, 23 - offset),
         AccelY |-> readUint16LE(buf, 25 - offset),
         AccelZ |-> readUint16LE(buf, 27 - offset),
         TouchId0 |-> BitAnd(readUint8(buf, 34 - offset), 127),
         TouchContact0 |-> BitAnd(readUint8(buf, 34 - offset), 128) = 0,
         TouchX0 |-> mapAxis(touchX(readUint16LE(buf, 35 - offset)), 1920),
         TouchY0 |-> mapAxis(touchY(readUint16LE(buf, 36 - offset)), 1080),
         TouchId1 |-> BitAnd(readUint8(buf, 38 - offset), 127),
         TouchContact1 |-> BitAnd(readUint8(buf, 38 - offset), 128) = 0,
         TouchX1 |-> mapAxis(touchX(readUint16LE(buf, 39 - offset)), 1920),
         TouchY1 |-> mapAxis(touchY(readUint16LE(buf, 40 - offset)), 1080),
         Status |-> BitAnd(readUint8(buf, 55 - offset), 4) > 0]

processOldInputReport(buf, w) ==
    LET offset == OldOffset(w)
    IN  IF AnyOutOfRange(buf, OldReads(offset))
          THEN [ok |-> FALSE, offset |-> FirstOutOfRange(buf, OldReads(offset))]
          ELSE [ok |-> TRUE, snapshot |-> OldSnapshot(buf, offset)]

\* the reads of processUsbInputReport01 with the status byte read at offset 64
UsbReads_statusAt64 ==
    <<<<8, 1>>, <<9, 1>>, <<10, 1>>, <<1, 1>>, <<2, 1>>, <<3, 1>>, <<4, 1>>,
      <<5, 1>>, <<6, 1>>, <<16, 1>>, <<17, 1>>, <<18, 1>>, <<19, 1>>,
      <<20, 1>>, <<21, 1>>, <<22, 1>>, <<23, 1>>, <<24, 1>>, <<25, 1>>,
      <<26, 1>>, <<27, 1>>, <<33, 1>>, <<33, 1>>, <<34, 2>>, <<35, 2>>,
      <<37, 1>>, <<37, 1>>, <<38, 2>>, <<39, 2>>, <<64, 1>>>>

\* the reads of processUsbInputReport01, in evaluation order
UsbReads ==
    <<<<8, 1>>, <<9, 1>>, <<10, 1>>, <<1, 1>>, <<2, 1>>, <<3, 1>>, <<4, 1>>,
      <<5, 1>>, <<6, 1>>, <<16, 1>>, <<17, 1>>, <<18, 1>>, <<19, 1>>,
      <<20, 1>>, <<21, 1>>, <<22, 1>>, <<23, 1>>, <<24, 1>>, <<25, 1>>,
      <<26, 1>>, <<27, 1>>, <<33, 1>>, <<33, 1>>, <<34, 2>>, <<35, 2>>,
      <<37, 1>>, <<37, 1>>, <<38, 2>>, <<39, 2>>, <<54, 1>>>>

UsbSnapshot(buf) ==
    LET buttonsAndDpad == readUint8(buf, 8)
        buttons == Sar(buttonsAndDpad, 4)
        dpad == BitAnd(buttonsAndDpad, 15)
        miscButtons == readUint8(buf, 9)
        lastButtons == readUint8(buf, 10)
    IN  [LeftAnalogX |-> mapAxis(readUint8(buf, 1), 255),
         LeftAnalogY |-> Neg(mapAxis(readUint8(buf, 2), 255)),
         RightAnalogX |-> mapAxis(readUint8(buf, 3), 255),
         RightAnalogY |-> Neg(mapAxis(readUint8(buf, 4), 255)),
         LeftTrigger |-> mapTrigger(readUint8(buf, 5)),
         RightTrigger |-> mapTrigger(readUint8(buf, 6)),
         Triangle |-> BitAnd(buttons, 8) > 0,
         Circle |-> BitAnd(buttons, 4) > 0,
         Cross |-> BitAnd(buttons, 2) > 0,
         Square |-> BitAnd(buttons, 1) > 0,
         Dpad |-> dpad,
         Up |-> dpad < 2 \/ dpad = 7,
         Down |-> dpad > 2 /\ dpad < 6,
         Left |-> dpad > 4 /\ dpad < 8,
         Right |-> dpad > 0 /\ dpad < 4,
         LeftTriggerButton |-> BitAnd(miscButtons, 4) > 0,
         RightTriggerButton |-> BitAnd(miscButtons, 8) > 0,
         LeftBumper |-> BitAnd(miscButtons, 1) > 0,
         RightBumper |-> BitAnd(miscButtons, 2) > 0,
         Create |-> BitAnd(miscButtons, 16) > 0,
         Options |-> BitAnd(miscButtons, 32) > 0,
         LeftAnalogButton |-> BitAnd(miscButtons, 64) > 0,
         RightAnalogButton |-> BitAnd(miscButtons, 128) > 0,
         Playstation |-> BitAnd(lastButtons, 1) > 0,
         TouchButton |-> BitAnd(lastButtons, 2) > 0,
         Mute |-> BitAnd(lastButtons, 4) > 0,
         GyroX |-> mapGyroAccel(readUint8(buf, 16), readUint8(buf, 17)),
         GyroY |-> mapGyroAccel(readUint8(buf, 18), readUint8(buf, 19)),
         GyroZ |-> mapGyroAccel(readUint8(buf, 20), readUint8(buf, 21)),
         AccelX |-> mapGyroAccel(readUint8(buf, 22), readUint8(buf, 23)),
         AccelY |-> mapGyroAccel(readUint8(buf, 24), readUint8(buf, 25)),
         AccelZ |-> mapGyroAccel(readUint8(buf, 26), readUint8(buf, 27)),
         TouchId0 |-> BitAnd(readUint8(buf, 33), 127),
         TouchContact0 |-> BitAnd(readUint8(buf, 33), 128) = 0,
         TouchX0 |-> mapAxis(touchX(readUint16LE(buf, 34)), 1920),
         TouchY0 |-> mapAxis(touchY(readUint16LE(buf, 35)), 1080),
         TouchId1 |-> BitAnd(readUint8(buf, 37), 127),
         TouchContact1 |-> BitAnd(readUint8(buf, 37), 128) = 0,
         TouchX1 |-> mapAxis(touchX(readUint16LE(buf, 38)), 1920),
         TouchY1 |-> mapAxis(touchY(readUint16LE(buf, 39)), 1080),
         Status |-> BitAnd(readUint8(buf, 54), 4) > 0]

\* processUsbInputReport01 with Up decoded as dpad < 2 only
processUsbInputReport01_upWithout7(buf) ==
    IF AnyOutOfRange(buf, UsbReads)
      THEN [ok |-> FALSE, offset |-> FirstOutOfRange(buf, UsbReads)]
      ELSE [ok |-> TRUE,
            snapshot |-> [UsbSnapshot(buf) EXCEPT
                            !.Up = BitAnd(readUint8(buf, 8), 15) < 2]]

processUsbInputReport01(buf) ==
    IF AnyOutOfRange(buf, UsbReads)
      THEN [ok |-> FALSE, offset |-> FirstOutOfRange(buf, UsbReads)]
      ELSE [ok |-> TRUE, snapshot |-> UsbSnapshot(buf)]

----------------------------------------------------------------------------
(* Claims about the connection classifier, checked under Spec *)

IsAutodetect(call) == call[1] = "autodetectConnectionType"

\* C1: starting with the Unknown-Device flag clear, any number N + 1 >= 1 of
\* autodetectConnectionType calls on buffers of an unrecognized length with
\* no reset() in between invokes onError exactly once in total.
C1_ReportedOnce == calls >= 1 => errors = 1

\* C1 witness: three unrecognized-length buffers in a row, one error reported
C1_Witness == calls = 3 /\ errors = 1 /\ unknownDevice

\* C2 as stated: an autodetectConnectionType call on a buffer of a recognized
\* length leaves the Unknown-Device flag clear.
C2_RecognizedLengthClearsFlag ==
    (IsAutodetect(lastCall) /\ Recognized(lastCall[2])) => ~unknownDevice

\* C2 as amended: once the Unknown-Device flag is raised, an
\* autodetectConnectionType call on a buffer of a recognized length sets
\* wireless from the length and leaves the flag raised, and no
\* autodetectConnectionType call reports the error again until reset().
C2_RecognizedLengthKeepsFlag ==
    [][(unknownDevice /\ IsAutodetect(lastCall'))
         => /\ unknownDevice'
            /\ errors' = errors
            /\ Recognized(lastCall'[2]) =>
                 wireless' = (IF lastCall'[2] = DUAL_SENSE_USB_INPUT_REPORT_0x01_SIZE + 1
                                THEN "false" ELSE "true")]_vars

\* C2 witness: a recognized-length buffer was classified after the flag was
\* raised, and the flag is still raised
C2_Witness ==
    /\ IsAutodetect(lastCall) /\ Recognized(lastCall[2])
    /\ unknownDevice /\ errors = 1 /\ wireless = "true"

\* C3: the Unknown-Device flag is sticky: once true it becomes false only
\* through reset(); reset() leaves unknownDevice false and wireless, device
\* and buffer undefined; the first unrecognized-length buffer after a reset()
\* reports the error again.
C3_StickyUntilReset ==
    [][/\ (unknownDevice /\ ~unknownDevice') => lastCall' = <<"reset">>
       /\ lastCall' = <<"reset">> =>
            /\ ~unknownDevice'
            /\ wireless' = "undefined"
            /\ device' = "undefined"
            /\ buffer' = "undefined"
       /\ (lastCall = <<"reset">> /\ IsAutodetect(lastCall') /\ ~Recognized(lastCall'[2]))
            => (errors' = errors + 1 /\ unknownDevice')]_vars

\* C3 witness: the flag is still raised after an unrecognized buffer was
\* followed by setWired() on a connected device with a stored report
C3_Witness ==
    /\ lastCall = <<"setWired">> /\ unknownDevice /\ wireless = "false"
    /\ device = "set" /\ buffer = "set"

\* C4: after setWireless() (resp. setWired()), the next
\* autodetectConnectionType call, on a buffer of any length, leaves wireless
\* true (resp. false).
C4_OverrideWins ==
    [][/\ (lastCall = <<"setWireless">> /\ IsAutodetect(lastCall')) => wireless' = "true"
       /\ (lastCall = <<"setWired">> /\ IsAutodetect(lastCall')) => wireless' = "false"]_vars

\* C5: a buffer of length 64 is classified wired, buffers of length 10 and 78
\* are classified wireless, for none of the three is onError invoked or the
\* Unknown-Device flag raised, and every other length yields wireless
\* undefined with the flag raised.
C5_DeclaredLengthsRecognized ==
    [][IsAutodetect(lastCall') =>
         LET len == lastCall'[2]
             declared == {DUAL_SENSE_USB_INPUT_REPORT_0x01_SIZE + 1,
                          DUAL_SENSE_BT_INPUT_REPORT_0x01_SIZE + 1,
                          DUAL_SENSE_BT_INPUT_REPORT_0x31_SIZE + 1}
         IN  /\ len = DUAL_SENSE_USB_INPUT_REPORT_0x01_SIZE + 1 => wireless' = "false"
             /\ len = DUAL_SENSE_BT_INPUT_REPORT_0x01_SIZE + 1 => wireless' = "true"
             /\ len = DUAL_SENSE_BT_INPUT_REPORT_0x31_SIZE + 1 => wireless' = "true"
             /\ len \in declared => (errors' = errors /\ unknownDevice' = unknownDevice)
             /\ len \notin declared => (wireless' = "undefined" /\ unknownDevice')]_vars

----------------------------------------------------------------------------
(* The value mappers applied to every input: SpecGyro, SpecAxis, SpecTouch *)

\* the max arguments the decoders hand to mapAxis: the default, and the
\* touchpad's width and height
AxisMax == {255, 1920, 1080}

\* raw values handed to mapAxis, from below 0 to above max
RawValues(max) == ((0 - MaxOver)..(max + MaxOver)) \cup {9999}

Word == 0..65535

GyroInit ==
    /\ ProviderInit /\ DecodeIdle
    /\ mapIn \in {<<"mapGyroAccel", v0, v1>> : v0 \in Byte, v1 \in Byte}
    /\ mapOut = <<>>

callMapGyroAccel ==
    /\ mapIn[1] = "mapGyroAccel" /\ mapOut = <<>>
    /\ mapOut' = <<mapGyroAccel(mapIn[2], mapIn[3])>>
    /\ UNCHANGED <<mapIn, providerVars, decodeVars>>

SpecGyro == GyroInit /\ [][callMapGyroAccel]_vars

AxisInit ==
    /\ ProviderInit /\ DecodeIdle
    /\ mapIn \in UNION {{<<"mapAxis", v, max>> : v \in RawValues(max)} : max \in AxisMax}
    /\ mapOut = <<>>

callMapAxis ==
    /\ mapIn[1] = "mapAxis" /\ mapOut = <<>>
    /\ mapOut' = <<mapAxis(mapIn[2], mapIn[3])>>
    /\ UNCHANGED <<mapIn, providerVars, decodeVars>>

SpecAxis == AxisInit /\ [][callMapAxis]_vars

TouchInit ==
    /\ ProviderInit /\ DecodeIdle
    /\ mapIn \in {<<"touch", word>> : word \in Word}
    /\ mapOut = <<>>

\* the X and the Y a decoder reconstructs from a 16-bit word it read
reconstructTouch ==
    /\ mapIn[1] = "touch" /\ mapOut = <<>>
    /\ mapOut' = <<touchX(mapIn[2]), touchY(mapIn[2])>>
    /\ UNCHANGED <<mapIn, providerVars, decodeVars>>

SpecTouch == TouchInit /\ [][reconstructTouch]_vars

----------------------------------------------------------------------------
(* The decode routines applied to a family of reports: SpecDecode *)

ReportLengths ==
    {DUAL_SENSE_BT_INPUT_REPORT_0x01_SIZE + 1,
     DUAL_SENSE_USB_INPUT_REPORT_0x01_SIZE + 1,
     DUAL_SENSE_BT_INPUT_REPORT_0x31_SIZE + 1}

\* the offsets some decode routine reads
DecodeOffsets == (1..11) \cup (16..28) \cup (33..41) \cup {54, 55}

\* byte values: every low nibble, and values with the high bits set
ByteSamples == (0..15) \cup {16, 32, 64, 127, 128, 135, 240, 247, 255}

\* the background of a report: all zero, all ones, or a different value at every offset
Fill(kind, i) ==
    IF kind = "zero" THEN 0
    ELSE IF kind = "ones" THEN 255
    ELSE (37 * i + 11) % 256

Reports ==
    {[i \in 0..(len - 1) |-> IF i = pos THEN val ELSE Fill(kind, i)] :
        len \in ReportLengths, kind \in {"zero", "ones", "ramp"},
        pos \in DecodeOffsets, val \in ByteSamples}

DecodeInit ==
    /\ device = "undefined" /\ buffer = "undefined" /\ unknownDevice = FALSE
    /\ lastCall = <<"new">> /\ calls = 0 /\ errors = 0
    /\ wireless \in {"true", "false", "undefined"}
    /\ MapperIdle
    /\ report \in Reports
    /\ routine = "none"
    /\ state = [ok |-> FALSE, offset |-> 0]

decodeBluetooth ==
    /\ routine = "none"
    /\ routine' = "processBluetoothInputReport01"
    /\ state' = processBluetoothInputReport01(report)
    /\ UNCHANGED <<report, providerVars, mapperVars>>

decodeOld ==
    /\ routine = "none"
    /\ routine' = "processOldInputReport"
    /\ state' = processOldInputReport(report, wireless)
    /\ UNCHANGED <<report, providerVars, mapperVars>>

decodeUsb ==
    /\ routine = "none"
    /\ routine' = "processUsbInputReport01"
    /\ state' = processUsbInputReport01(report)
    /\ UNCHANGED <<report, providerVars, mapperVars>>

DecodeNext == decodeBluetooth \/ decodeOld \/ decodeUsb

SpecDecode == DecodeInit /\ [][DecodeNext]_vars

----------------------------------------------------------------------------
(* Claims about the decoders and the value mappers *)

MotionAndTouchIds ==
    {"GyroX", "GyroY", "GyroZ", "AccelX", "AccelY", "AccelZ",
     "TouchX0", "TouchY0", "TouchContact0", "TouchId0",
     "TouchX1", "TouchY1", "TouchContact1", "TouchId1"}

ZeroReport(len) == [i \in 0..(len - 1) |-> 0]

\* C6: decoding a 10-byte (wireless-reduced) report with
\* processBluetoothInputReport01 succeeds without any byte access at or
\* beyond offset 10, and the six motion and eight touch identifiers carry a
\* value that does not depend on the buffer contents (checked under
\* SpecDecode).
C6_ReducedReportDecodes ==
    (routine = "processBluetoothInputReport01"
       /\ length(report) = DUAL_SENSE_BT_INPUT_REPORT_0x01_SIZE + 1)
      => /\ state.ok
         /\ \A i \in 1..Len(BluetoothReads) :
              BluetoothReads[i][1] + BluetoothReads[i][2]
                <= DUAL_SENSE_BT_INPUT_REPORT_0x01_SIZE + 1
         /\ \A id \in MotionAndTouchIds :
              state.snapshot[id]
                = processBluetoothInputReport01(ZeroReport(length(report))).snapshot[id]

\* C7: for all bytes low, high, mapGyroAccel(low, high) is the two's-complement
\* signed 16-bit reading of high * 256 + low, so it lies in -32768..32767;
\* mapGyroAccel(0, 0) = 0, mapGyroAccel(255, 127) = 32767 and
\* mapGyroAccel(0, 128) = -32768 (checked under SpecGyro).
C7_TwosComplement ==
    mapOut # <<>> =>
      LET low == mapIn[2]
          high == mapIn[3]
          u == high * 256 + low
          r == mapOut[1]
      IN  /\ r = (IF u <= 32767 THEN u ELSE u - 65536)
          /\ r >= -32768 /\ r <= 32767
          /\ (low = 0 /\ high = 0) => r = 0
          /\ (low = 255 /\ high = 127) => r = 32767
          /\ (low = 0 /\ high = 128) => r = -32768

\* C7 witness: the most negative value was reconstructed
C7_Witness == mapIn = <<"mapGyroAccel", 0, 128>> /\ mapOut = <<-32768>>

SameRational(r, q) == r.num * q.den = q.num * r.den

\* C8: for every integer raw value v and max in {255, 1920, 1080},
\* mapAxis(v, max) = (2 / max) * clamp(v, 0, max) - 1, which lies in [-1, 1];
\* 0 maps to -1, max maps to 1, every v < 0 maps like 0 and every v > max
\* maps like max (checked under SpecAxis).
C8_ClampedAxis ==
    mapOut # <<>> =>
      LET v == mapIn[2]
          max == mapIn[3]
          r == mapOut[1]
          c == IF v < 0 THEN 0 ELSE IF v > max THEN max ELSE v
      IN  /\ r.den > 0
          /\ r.num * max = (2 * c - max) * r.den
          /\ 0 - r.den <= r.num /\ r.num <= r.den
          /\ v = 0 => r.num = 0 - r.den
          /\ v = max => r.num = r.den
          /\ v < 0 => SameRational(r, mapAxis(0, max))
          /\ v > max => SameRational(r, mapAxis(max, max))

\* C8 witness: a raw value below 0 was mapped to -1
C8_Witness ==
    /\ mapOut # <<>> /\ mapIn[1] = "mapAxis" /\ mapIn[2] = -5 /\ mapIn[3] = 255
    /\ mapOut[1].num = 0 - mapOut[1].den

\* C9: in each decode routine, for every d-pad nibble value 0..8,
\* Up = (value < 2 or value = 7), Down = (2 < value < 6), Left = (4 < value < 8),
\* Right = (0 < value < 4); 8 yields all four false; Up and Down are never
\* both true, nor Left and Right (checked under SpecDecode).
C9_DpadDecomposition ==
    (routine # "none" /\ state.ok) =>
      LET s == state.snapshot
          value == s.Dpad
      IN  value \in 0..8 =>
            /\ s.Up = (value < 2 \/ value = 7)
            /\ s.Down = (2 < value /\ value < 6)
            /\ s.Left = (4 < value /\ value < 8)
            /\ s.Right = (0 < value /\ value < 4)
            /\ value = 8 => (~s.Up /\ ~s.Down /\ ~s.Left /\ ~s.Right)
            /\ ~(s.Up /\ s.Down)
            /\ ~(s.Left /\ s.Right)

\* C9 witness: processUsbInputReport01 decoded the d-pad value 7 as Up and Left
C9_Witness ==
    /\ routine = "processUsbInputReport01" /\ state.ok
    /\ state.snapshot.Dpad = 7 /\ state.snapshot.Up /\ state.snapshot.Left
    /\ BitAnd(report[8], 15) = 7

\* C10 as stated: the touch coordinates the decoders reconstruct before
\* normalization satisfy 0 <= X <= 1920 and 0 <= Y <= 1080.
C10_WithinResolution ==
    mapOut # <<>> =>
      /\ 0 <= mapOut[1] /\ mapOut[1] <= 1920
      /\ 0 <= mapOut[2] /\ mapOut[2] <= 1080

\* C10 as amended: for every content of the touch bytes the reconstructed
\* coordinates satisfy -2048 <= X <= 2047 and 0 <= Y <= 4095; what mapAxis
\* makes of them lies in [-1, 1] (checked under SpecTouch).
C10_TwelveBitRange ==
    mapOut # <<>> =>
      /\ -2048 <= mapOut[1] /\ mapOut[1] <= 2047
      /\ 0 <= mapOut[2] /\ mapOut[2] <= 4095
      /\ LET x == mapAxis(mapOut[1], 1920)
             y == mapAxis(mapOut[2], 1080)
         IN  /\ 0 - x.den <= x.num /\ x.num <= x.den
             /\ 0 - y.den <= y.num /\ y.num <= y.den

\* C10 witness: from the word 0xFFFF, X was reconstructed as a negative
\* number and Y as 4095, above the touchpad's height
C10_Witness == mapIn = <<"touch", 65535>> /\ mapOut = <<-1, 4095>>

----------------------------------------------------------------------------
(* Claims about the decoders' offsets, checked under SpecDecode *)

\* the reads the routine that ran makes, in evaluation order
ReadsOf(r, w) ==
    IF r = "processBluetoothInputReport01" THEN BluetoothReads
    ELSE IF r = "processUsbInputReport01" THEN UsbReads
    ELSE OldReads(OldOffset(w))

\* the outcome of routine r on buf
Decode(r, buf, w) ==
    IF r = "processBluetoothInputReport01" THEN processBluetoothInputReport01(buf)
    ELSE IF r = "processUsbInputReport01" THEN processUsbInputReport01(buf)
    ELSE processOldInputReport(buf, w)

\* the routine ran on a buffer of the length autodetection accepts for it
AcceptedLength ==
    \/ /\ routine = "processUsbInputReport01"
       /\ length(report) = DUAL_SENSE_USB_INPUT_REPORT_0x01_SIZE + 1
    \/ /\ routine = "processOldInputReport" /\ wireless # "true"
       /\ length(report) = DUAL_SENSE_USB_INPUT_REPORT_0x01_SIZE + 1
    \/ /\ routine = "processBluetoothInputReport01"
       /\ length(report) = DUAL_SENSE_BT_INPUT_REPORT_0x31_SIZE + 1
    \/ /\ routine = "processOldInputReport" /\ wireless = "true"
       /\ length(report) = DUAL_SENSE_BT_INPUT_REPORT_0x31_SIZE + 1

\* C11: no decode routine addresses past the buffer when the buffer has the
\* length autodetection accepts for it (64 bytes for processUsbInputReport01
\* and for processOldInputReport with wireless false or undefined, 78 bytes
\* for processBluetoothInputReport01 and for processOldInputReport with
\* wireless true): every readUint8 offset is < length, every readUint16LE
\* offset + 1 is < length, and the routine returns a snapshot.
C11_ReadsWithinBuffer ==
    AcceptedLength =>
      LET reads == ReadsOf(routine, wireless)
      IN  /\ \A i \in 1..Len(reads) :
               /\ reads[i][1] >= 0
               /\ reads[i][2] = 1 => reads[i][1] < length(report)
               /\ reads[i][2] = 2 => reads[i][1] + 1 < length(report)
          /\ state.ok

\* C11 witness: processUsbInputReport01 returned a snapshot for a 64-byte
\* buffer whose last byte read, the status byte at offset 54, has bit 2 set
C11_Witness ==
    /\ routine = "processUsbInputReport01" /\ AcceptedLength
    /\ state.ok /\ state.snapshot.Status /\ report[54] = 4

\* the byte a routine decodes the bumper, trigger-button, create, options
\* and stick-click bits from
MiscButtonsOffset(r, w) ==
    IF r = "processBluetoothInputReport01" THEN 8
    ELSE IF r = "processUsbInputReport01" THEN 9
    ELSE 10 - OldOffset(w)

\* the byte a routine decodes the Playstation, touch and mute bits from
LastButtonsOffset(r, w) ==
    IF r = "processBluetoothInputReport01" THEN 9
    ELSE IF r = "processUsbInputReport01" THEN 10
    ELSE 11 - OldOffset(w)

\* C12: in every decode routine, two buffers that differ only in the
\* misc-button byte or only in the last-button byte decode to the same
\* LeftTrigger and RightTrigger values.
C12_TriggersIndependentOfButtons ==
    (routine # "none" /\ state.ok) =>
      \A p \in {MiscButtonsOffset(routine, wireless), LastButtonsOffset(routine, wireless)} :
        \A v \in {0, 255} :
          LET other == Decode(routine, [report EXCEPT ![p] = v], wireless)
          IN  /\ other.ok
              /\ other.snapshot.LeftTrigger = state.snapshot.LeftTrigger
              /\ other.snapshot.RightTrigger = state.snapshot.RightTrigger

MotionIds == {"GyroX", "GyroY", "GyroZ", "AccelX", "AccelY", "AccelZ"}

InputIds == DOMAIN UsbSnapshot(ZeroReport(DUAL_SENSE_USB_INPUT_REPORT_0x01_SIZE + 1))

\* C13: for every 64-byte buffer, processOldInputReport with wireless false
\* or undefined and processUsbInputReport01 produce the same value for every
\* Input Identifier except the six motion identifiers; for each of those the
\* legacy routine returns the unsigned 16-bit value in 0..65535, which equals
\* the current-firmware value when that is non-negative and exceeds it by
\* 65536 otherwise.
C13_LegacyWiredMatchesUsb ==
    (/\ routine = "processOldInputReport" /\ wireless # "true"
     /\ length(report) = DUAL_SENSE_USB_INPUT_REPORT_0x01_SIZE + 1)
      => /\ state.ok
         /\ processUsbInputReport01(report).ok
         /\ LET legacy == state.snapshot
                current == processUsbInputReport01(report).snapshot
            IN  /\ DOMAIN legacy = DOMAIN current
                /\ \A id \in InputIds \ MotionIds : legacy[id] = current[id]
                /\ \A id \in MotionIds :
                     /\ legacy[id] >= 0 /\ legacy[id] <= 65535
                     /\ current[id] >= 0 => legacy[id] = current[id]
                     /\ current[id] < 0 => legacy[id] = current[id] + 65536

\* C13 witness: the legacy routine, with wireless undefined, returned 65535
\* for GyroX from a 64-byte buffer of ones, where the current routine returns -1
C13_Witness ==
    /\ routine = "processOldInputReport" /\ wireless = "undefined"
    /\ length(report) = DUAL_SENSE_USB_INPUT_REPORT_0x01_SIZE + 1
    /\ state.ok /\ state.snapshot.GyroX = 65535
    /\ processUsbInputReport01(report).snapshot.GyroX = -1

====
